---- MODULE Spec2Model ----
(***************************************************************************)
(* PeriodicCheck (src/src/PeriodicCheck.ts): an adaptive-interval health   *)
(* monitor.  One instance, the host's timers, the probe invocations in     *)
(* flight and the calls made to the registered listeners.                  *)
(***************************************************************************)
EXTENDS Integers, Sequences, FiniteSets, TLC

\* ------------------------------------------------------------ bounds
MaxProbes == 3          \* probe invocations in one behaviour of Spec
MaxChecks == 2          \* calls of check() in one behaviour of Spec
MaxListeners == 2       \* calls of on() in one behaviour
MaxIdleTicks == 1       \* with no timer pending, time passes while now is below this many windows
LongProbes == 103       \* probe invocations in one behaviour of SpecLong

\* ------------------------------------------------- program constants
HistoryCap == 100
DefaultMaxSuspectCount == 3
DefaultMinHealthyCount == 2
DefaultWindowMinutes == 60
MsPerMinute == 60000

Statuses == {"healthy", "suspect", "unhealthy"}
CheckStatus == Statuses \cup {"error"}

NoTimer == 0            \* this.timer = null

\* DEFAULT_OPTIONAL_INTERVAL_CONFIG
DEFAULT_OPTIONAL_INTERVAL_CONFIG ==
    [maxSuspectCount |-> DefaultMaxSuspectCount,
     minHealthyCount |-> DefaultMinHealthyCount]

\* constructor: { ...DEFAULT_OPTIONAL_INTERVAL_CONFIG, ...intervals }
\* (a key of the argument wins, a missing key keeps the default)
Construct(arg) == arg @@ DEFAULT_OPTIONAL_INTERVAL_CONFIG

\* ------------------------------------------------------------ inputs
RequiredInput ==
    [healthy |-> 30 * MsPerMinute,
     suspect |-> 20 * MsPerMinute,
     unhealthy |-> 70 * MsPerMinute]

OptionalInputs ==
    { [s \in {} |-> 0] }
    \cup { [maxSuspectCount |-> n] : n \in 1..2 }
    \cup { [minHealthyCount |-> n] : n \in {1} }
    \cup { [maxSuspectCount |-> n, minHealthyCount |-> k] : n \in 1..2, k \in {1} }

ConfigInputs == { o @@ RequiredInput : o \in OptionalInputs }

\* values a probe may raise: Error instances and a value that is no Error
TestError == [isError |-> TRUE, message |-> "Test error"]
StringValue == [isError |-> FALSE, message |-> "plain string"]
ListenerError == [isError |-> TRUE, message |-> "listener failed"]
NoError == [isError |-> FALSE, message |-> ""]
RaisedValues == {TestError, StringValue}

\* what a probe invocation settles with
Outcomes ==
    { [kind |-> "resolve", value |-> b, raised |-> NoError] : b \in BOOLEAN }
    \cup { [kind |-> "reject", value |-> FALSE, raised |-> e] : e \in RaisedValues }

\* error instanceof Error ? error : new Error("Unknown error")
UnknownError == [isError |-> TRUE, message |-> "Unknown error"]
\* mutant: every raised value is replaced by the "Unknown error" Error
NormalizeError_AlwaysUnknown(error) == UnknownError

NormalizeError(error) == IF error.isError THEN error ELSE UnknownError

Probes == {"probe"}
Undefined == "undefined"

VARIABLES
    \* the instance's fields
    intervals, checkFn, currentStatus, timer, suspectCount, healthyCount,
    listeners, history,
    \* the host: Date.now(), the timers set and not yet fired or cleared,
    \* the timer ids handed out, the probe invocations not yet settled
    now, timers, nextTimerId, inflight,
    \* the inputs of the run: a mock probe's results (<<>>: any outcome at
    \* any invocation) and whether listeners that throw may be registered
    script, mayThrow,
    \* observation: the listener calls of the last operation, what the last
    \* operation was, the counts of operations, every history entry ever
    \* pushed, and the current runs of failed and of successful probes
    calls, last, stopped, probeCalls, checkCalls, registered, fullLog,
    failRun, okRun

vars ==
    <<intervals, checkFn, currentStatus, timer, suspectCount, healthyCount,
      listeners, history, now, timers, nextTimerId, inflight, script,
      mayThrow, calls, last, stopped, probeCalls, checkCalls, registered,
      fullLog, failRun, okRun>>

\* ------------------------------------------------------- pure parts

\* getRecentHistory(minutes): entries with timestamp >= Date.now() - minutes*60*1000
getRecentHistory(h, minutes, t) ==
    LET cutoff == t - minutes * MsPerMinute
    IN SelectSeq(h, LAMBDA entry : entry.timestamp >= cutoff)

\* getCurrentStreak(): 0 on an empty history, otherwise the length of the run
\* of entries at the end of the history that have the last entry's status
RECURSIVE StreakFrom(_, _, _)
StreakFrom(h, i, status) ==
    IF i >= 1 /\ h[i].status = status
    THEN 1 + StreakFrom(h, i - 1, status)
    ELSE 0

getCurrentStreak(h) ==
    IF Len(h) = 0 THEN 0
    ELSE 1 + StreakFrom(h, Len(h) - 1, h[Len(h)].status)

\* the reduce of getMetrics: a count for each status that occurs, no key for
\* a status that does not occur
CountStatuses(recent) ==
    [s \in {recent[i].status : i \in 1..Len(recent)} |->
        Cardinality({i \in 1..Len(recent) : recent[i].status = s})]

\* counts.healthy || 0
HealthyOrZero(counts) ==
    IF "healthy" \in DOMAIN counts THEN counts["healthy"] ELSE 0

\* getMetrics(): availability is kept as the pair <<numerator, denominator>>
EmptyMetrics ==
    [availability |-> <<1, 1>>,
     currentStreak |-> 1,
     statusCounts |-> [healthy |-> 1, suspect |-> 0, unhealthy |-> 0, error |-> 0]]

getMetrics(h, t) ==
    LET recentHistory == getRecentHistory(h, DefaultWindowMinutes, t)
        total == Len(recentHistory)
        counts == CountStatuses(recentHistory)
    IN IF total = 0 THEN EmptyMetrics
       ELSE [availability |-> <<HealthyOrZero(counts), total>>,
             statusCounts |-> counts,
             currentStreak |-> getCurrentStreak(h)]

\* createEventData()
createEventData(o, t) ==
    [status |-> o.currentStatus,
     history |-> getRecentHistory(o.history, DefaultWindowMinutes, t),
     metrics |-> getMetrics(o.history, t)]

\* listeners.forEach(listener => listener(arg)): the calls made, in
\* registration order, up to and including the first listener that throws
FirstThrower(ls) ==
    IF \E i \in 1..Len(ls) : ls[i].throws
    THEN CHOOSE i \in 1..Len(ls) :
            ls[i].throws /\ \A j \in 1..(i - 1) : ~ls[j].throws
    ELSE 0

forEachCall(ls, event, arg) ==
    LET ft == FirstThrower(ls)
        n == IF ft = 0 THEN Len(ls) ELSE ft
    IN [calls |-> [i \in 1..n |-> [listener |-> ls[i].id, event |-> event, arg |-> arg]],
        threw |-> ft # 0]

\* notifyListeners(): the listeners of the current status get the snapshot
notifyListeners(o, t) ==
    forEachCall(listeners[o.currentStatus], o.currentStatus, createEventData(o, t))

\* mutant: recovery needs more than minHealthyCount successes
SuccessUpdate_Strict(o) ==
    LET hc == o.healthyCount + 1
    IN [o EXCEPT !.healthyCount = hc,
                 !.suspectCount = 0,
                 !.currentStatus =
                     IF hc > intervals.minHealthyCount THEN "healthy" ELSE @]

\* updateStatus, isHealthy branch (lines 80-86)
\* mutant: a success leaves suspectCount as it is
SuccessUpdate_KeepsSuspectCount(o) ==
    LET hc == o.healthyCount + 1
    IN [o EXCEPT !.healthyCount = hc,
                 !.currentStatus =
                     IF hc >= intervals.minHealthyCount THEN "healthy" ELSE @]

SuccessUpdate(o) ==
    LET hc == o.healthyCount + 1
    IN [o EXCEPT !.healthyCount = hc,
                 !.suspectCount = 0,
                 !.currentStatus =
                     IF hc >= intervals.minHealthyCount THEN "healthy" ELSE @]

\* mutant: escalation needs more than maxSuspectCount failures
FailureUpdate_Strict(o) ==
    LET sc == o.suspectCount + 1
    IN IF o.currentStatus = "healthy"
       THEN [o EXCEPT !.healthyCount = 0,
                      !.suspectCount = sc,
                      !.currentStatus =
                          IF sc > intervals.maxSuspectCount
                          THEN "unhealthy" ELSE "suspect"]
       ELSE IF o.currentStatus = "suspect"
       THEN [o EXCEPT !.healthyCount = 0,
                      !.suspectCount = sc,
                      !.currentStatus =
                          IF sc > intervals.maxSuspectCount
                          THEN "unhealthy" ELSE @]
       ELSE [o EXCEPT !.healthyCount = 0]

\* mutant: the first failure of a healthy monitor always gives suspect
FailureUpdate_SuspectFirst(o) ==
    LET sc == o.suspectCount + 1
    IN IF o.currentStatus = "healthy"
       THEN [o EXCEPT !.healthyCount = 0,
                      !.suspectCount = sc,
                      !.currentStatus = "suspect"]
       ELSE IF o.currentStatus = "suspect"
       THEN [o EXCEPT !.healthyCount = 0,
                      !.suspectCount = sc,
                      !.currentStatus =
                          IF sc >= intervals.maxSuspectCount
                          THEN "unhealthy" ELSE @]
       ELSE [o EXCEPT !.healthyCount = 0]

\* mutant: a failure while unhealthy still advances suspectCount
FailureUpdate_CountsInUnhealthy(o) ==
    LET sc == o.suspectCount + 1
    IN IF o.currentStatus = "healthy"
       THEN [o EXCEPT !.healthyCount = 0,
                      !.suspectCount = sc,
                      !.currentStatus =
                          IF sc >= intervals.maxSuspectCount
                          THEN "unhealthy" ELSE "suspect"]
       ELSE IF o.currentStatus = "suspect"
       THEN [o EXCEPT !.healthyCount = 0,
                      !.suspectCount = sc,
                      !.currentStatus =
                          IF sc >= intervals.maxSuspectCount
                          THEN "unhealthy" ELSE @]
       ELSE [o EXCEPT !.healthyCount = 0, !.suspectCount = sc]

\* updateStatus, else branch (lines 87-103)
FailureUpdate(o) ==
    LET sc == o.suspectCount + 1
    IN IF o.currentStatus = "healthy"
       THEN [o EXCEPT !.healthyCount = 0,
                      !.suspectCount = sc,
                      !.currentStatus =
                          IF sc >= intervals.maxSuspectCount
                          THEN "unhealthy" ELSE "suspect"]
       ELSE IF o.currentStatus = "suspect"
       THEN [o EXCEPT !.healthyCount = 0,
                      !.suspectCount = sc,
                      !.currentStatus =
                          IF sc >= intervals.maxSuspectCount
                          THEN "unhealthy" ELSE @]
       ELSE [o EXCEPT !.healthyCount = 0]

\* mutant: pop() instead of shift(), the newest entry is dropped on overflow
pushHistory_DropsNewest(h, entry) ==
    LET pushed == Append(h, entry)
    IN IF Len(pushed) > HistoryCap THEN SubSeq(pushed, 1, Len(pushed) - 1) ELSE pushed

\* history.push(entry); if (history.length > 100) history.shift()
pushHistory(h, entry) ==
    LET pushed == Append(h, entry)
    IN IF Len(pushed) > HistoryCap THEN Tail(pushed) ELSE pushed

\* mutant: prevStatus is read after the transition, so nothing is notified
updateStatus_NoNotify(o, isHealthy, t) ==
    LET counted == IF isHealthy THEN SuccessUpdate(o) ELSE FailureUpdate(o)
        entry == [status |-> counted.currentStatus, timestamp |-> t]
        after == [counted EXCEPT !.history = pushHistory(@, entry)]
    IN [o |-> after, entry |-> entry, calls |-> <<>>, threw |-> FALSE]

\* mutant: the listeners are notified after every update
updateStatus_NotifyAlways(o, isHealthy, t) ==
    LET counted == IF isHealthy THEN SuccessUpdate(o) ELSE FailureUpdate(o)
        entry == [status |-> counted.currentStatus, timestamp |-> t]
        after == [counted EXCEPT !.history = pushHistory(@, entry)]
        notified == notifyListeners(after, t)
    IN [o |-> after, entry |-> entry, calls |-> notified.calls, threw |-> notified.threw]

\* updateStatus(isHealthy): the instance after it, the listener calls it
\* made and whether one of them threw
updateStatus(o, isHealthy, t) ==
    LET prevStatus == o.currentStatus
        counted == IF isHealthy THEN SuccessUpdate(o) ELSE FailureUpdate(o)
        entry == [status |-> counted.currentStatus, timestamp |-> t]
        after == [counted EXCEPT !.history = pushHistory(@, entry)]
        notified == IF prevStatus # after.currentStatus
                    THEN notifyListeners(after, t)
                    ELSE [calls |-> <<>>, threw |-> FALSE]
    IN [o |-> after, entry |-> entry, calls |-> notified.calls, threw |-> notified.threw]

\* ------------------------------------------------- the instance, the host

Self ==
    [currentStatus |-> currentStatus, suspectCount |-> suspectCount,
     healthyCount |-> healthyCount, history |-> history]

Host == [timer |-> timer, timers |-> timers, nextTimerId |-> nextTimerId]

\* mutant: the delay is always the healthy interval
IntervalFor_Healthy(status) == intervals["healthy"]

\* scheduleNext, lines 136-141: the delay is looked up by the current status
\* ("error" falls back to the unhealthy interval)
IntervalFor(status) ==
    LET intervalStatus == IF status = "error" THEN "unhealthy" ELSE status
    IN intervals[intervalStatus]

\* clearTimeout(id): a timer that fired or was cleared is not in the set
clearTimeout(pending, id) == {x \in pending : x.id # id}

\* mutant: the previous timer is not cleared
scheduleNext_NoClear(h, status, t) ==
    LET interval == IntervalFor(status)
        id == h.nextTimerId
    IN [timer |-> id,
        timers |-> h.timers \cup {[id |-> id, due |-> t + interval, delay |-> interval]},
        nextTimerId |-> id + 1]

\* scheduleNext(): clear this.timer if it is set, then set a new timer
scheduleNext(h, status, t) ==
    LET cleared == IF h.timer # NoTimer THEN clearTimeout(h.timers, h.timer)
                   ELSE h.timers
        interval == IntervalFor(status)
        id == h.nextTimerId
    IN [timer |-> id,
        timers |-> cleared \cup {[id |-> id, due |-> t + interval, delay |-> interval]},
        nextTimerId |-> id + 1]

\* the calls of handleError's forEach (line 150), each with what the listener
\* finds when it is called: the status and the timer handle of the instance
\* and the timers pending in the host
CalledAt(cs, o, h) ==
    [i \in 1..Len(cs) |->
        [listener |-> cs[i].listener, event |-> cs[i].event, arg |-> cs[i].arg,
         seen |-> [currentStatus |-> o.currentStatus, timer |-> h.timer,
                   timers |-> h.timers]]]

\* mutant: the error listeners are called first, then the update and the timer
handleError_ListenersFirst(o, h, error, before, t) ==
    LET u == updateStatus(o, FALSE, t)
        e == forEachCall(listeners["error"], "error", error)
    IN [o |-> u.o, h |-> scheduleNext(h, u.o.currentStatus, t),
        calls |-> before \o CalledAt(e.calls, o, h) \o u.calls,
        pushed |-> <<u.entry>>, scheduled |-> TRUE, escaped |-> e.threw \/ u.threw]

\* mutant: the error path makes "error" the current status before its update
handleError_SetsError(o, h, error, before, t) ==
    LET u == updateStatus([o EXCEPT !.currentStatus = "error"], FALSE, t)
        e == forEachCall(listeners["error"], "error", error)
    IN [o |-> u.o, h |-> scheduleNext(h, u.o.currentStatus, t),
        calls |-> before \o e.calls,
        pushed |-> <<u.entry>>, scheduled |-> TRUE, escaped |-> e.threw]

\* mutant: the error path does not schedule the next probe
handleError_NoSchedule(o, h, error, before, t) ==
    LET u == updateStatus(o, FALSE, t)
        e == forEachCall(listeners["error"], "error", error)
    IN [o |-> u.o, h |-> h, calls |-> before \o u.calls \o e.calls,
        pushed |-> <<u.entry>>, scheduled |-> FALSE, escaped |-> u.threw \/ e.threw]

\* handleError(error): failure update, scheduleNext, then the error listeners.
\* A status listener that throws inside updateStatus ends handleError there.
handleError(o, h, error, before, t) ==
    LET u == updateStatus(o, FALSE, t)
        e == forEachCall(listeners["error"], "error", error)
    IN IF u.threw
       THEN [o |-> u.o, h |-> h, calls |-> before \o u.calls,
             pushed |-> <<u.entry>>, scheduled |-> FALSE, escaped |-> TRUE]
       ELSE LET hs == scheduleNext(h, u.o.currentStatus, t)
            IN [o |-> u.o, h |-> hs,
                calls |-> before \o u.calls \o CalledAt(e.calls, u.o, hs),
                pushed |-> <<u.entry>>, scheduled |-> TRUE, escaped |-> e.threw]

\* runCheck() from the point where the awaited probe settles: the try block's
\* updateStatus and scheduleNext, and the catch block's handleError
resumeRunCheck(o, h, outcome, t) ==
    IF outcome.kind = "resolve"
    THEN LET u == updateStatus(o, outcome.value, t)
         IN IF u.threw
            THEN LET r == handleError(u.o, h, NormalizeError(ListenerError), u.calls, t)
                 IN [r EXCEPT !.pushed = <<u.entry>> \o @]
            ELSE [o |-> u.o, h |-> scheduleNext(h, u.o.currentStatus, t),
                  calls |-> u.calls, pushed |-> <<u.entry>>,
                  scheduled |-> TRUE, escaped |-> FALSE]
    ELSE handleError(o, h, NormalizeError(outcome.raised), <<>>, t)

Scripted == script # <<>>
ProbeBound == IF Scripted THEN LongProbes ELSE MaxProbes
CheckBound == IF Scripted THEN 1 ELSE MaxChecks

NoListeners == [k \in CheckStatus |-> <<>>]

NoOutcome == [kind |-> "none", value |-> FALSE, raised |-> NoError]

Did(op, prev, outcome, scheduled, escaped) ==
    [op |-> op, prev |-> prev, outcome |-> outcome,
     scheduled |-> scheduled, escaped |-> escaped]

\* ------------------------------------------------------------ states

InitCommon ==
    /\ intervals \in {Construct(c) : c \in ConfigInputs}
    /\ checkFn = Undefined
    /\ currentStatus = "healthy"
    /\ timer = NoTimer
    /\ suspectCount = 0
    /\ healthyCount = 0
    /\ listeners = NoListeners
    /\ history = <<>>
    /\ now = 0
    /\ timers = {}
    /\ nextTimerId = 1
    /\ inflight = 0
    /\ calls = <<>>
    /\ last = Did("new", "healthy", NoOutcome, FALSE, FALSE)
    /\ stopped = FALSE
    /\ probeCalls = 0
    /\ checkCalls = 0
    /\ registered = 0
    /\ fullLog = <<>>
    /\ failRun = 0
    /\ okRun = 0

Init ==
    /\ InitCommon
    /\ script = <<>>
    /\ mayThrow = FALSE

\* ----------------------------------------------------------- actions

\* on(status, listener)
On(status, throws) ==
    /\ registered < MaxListeners
    /\ registered' = registered + 1
    /\ listeners' = [listeners EXCEPT
                        ![status] = Append(@, [id |-> registered + 1, throws |-> throws])]
    /\ calls' = <<>>
    /\ last' = Did("on", currentStatus, NoOutcome, FALSE, FALSE)
    /\ UNCHANGED <<intervals, checkFn, currentStatus, timer, suspectCount,
                   healthyCount, history, now, timers, nextTimerId, inflight,
                   script, mayThrow, stopped, probeCalls, checkCalls, fullLog,
                   failRun, okRun>>

\* mutant: check() schedules without the initial notification
Check_NoInitialNotify(fn) ==
    /\ checkCalls < CheckBound
    /\ LET h == scheduleNext(Host, currentStatus, now)
       IN /\ checkFn' = fn
          /\ calls' = <<>>
          /\ timer' = h.timer
          /\ timers' = h.timers
          /\ nextTimerId' = h.nextTimerId
          /\ last' = Did("check", currentStatus, NoOutcome, TRUE, FALSE)
    /\ checkCalls' = checkCalls + 1
    /\ stopped' = FALSE
    /\ UNCHANGED <<intervals, currentStatus, suspectCount, healthyCount,
                   listeners, history, now, inflight, script, mayThrow,
                   probeCalls, registered, fullLog, failRun, okRun>>

\* check(fn): install the probe, notify the listeners of the current status,
\* scheduleNext (not reached when a listener throws)
Check(fn) ==
    /\ checkCalls < CheckBound
    /\ LET n == notifyListeners(Self, now)
           h == IF n.threw THEN Host ELSE scheduleNext(Host, currentStatus, now)
       IN /\ checkFn' = fn
          /\ calls' = n.calls
          /\ timer' = h.timer
          /\ timers' = h.timers
          /\ nextTimerId' = h.nextTimerId
          /\ last' = Did("check", currentStatus, NoOutcome, ~n.threw, n.threw)
    /\ checkCalls' = checkCalls + 1
    /\ stopped' = FALSE
    /\ UNCHANGED <<intervals, currentStatus, suspectCount, healthyCount,
                   listeners, history, now, inflight, script, mayThrow,
                   probeCalls, registered, fullLog, failRun, okRun>>

\* stop()
Stop ==
    /\ timers' = IF timer # NoTimer THEN clearTimeout(timers, timer) ELSE timers
    /\ timer' = NoTimer
    /\ stopped' = TRUE
    /\ calls' = <<>>
    /\ last' = Did("stop", currentStatus, NoOutcome, FALSE, FALSE)
    /\ UNCHANGED <<intervals, checkFn, currentStatus, suspectCount, healthyCount,
                   listeners, history, now, nextTimerId, inflight, script,
                   mayThrow, probeCalls, checkCalls, registered, fullLog,
                   failRun, okRun>>

\* time passes: up to the instant the next timer is due, or, with no timer
\* pending, by one default window.  Instant 0 is the first check(): nothing
\* reads the clock before it.
Tick ==
    /\ IF timers # {}
       THEN /\ \A x \in timers : now < x.due
            /\ now' = CHOOSE d \in {x.due : x \in timers} :
                          \A x \in timers : d <= x.due
       ELSE /\ checkCalls > 0
            /\ now < MaxIdleTicks * DefaultWindowMinutes * MsPerMinute
            /\ now' = now + DefaultWindowMinutes * MsPerMinute
    /\ calls' = <<>>
    /\ last' = Did("tick", currentStatus, NoOutcome, FALSE, FALSE)
    /\ UNCHANGED <<intervals, checkFn, currentStatus, timer, suspectCount,
                   healthyCount, listeners, history, timers, nextTimerId,
                   inflight, script, mayThrow, stopped, probeCalls, checkCalls,
                   registered, fullLog, failRun, okRun>>

\* a timer fires: runCheck() up to the await, i.e. the probe is invoked (a
\* timer exists only after check() installed a probe)
TimerFire(x) ==
    /\ x \in timers
    /\ now >= x.due
    /\ probeCalls < ProbeBound
    /\ checkFn # Undefined
    /\ timers' = timers \ {x}
    /\ inflight' = inflight + 1
    /\ probeCalls' = probeCalls + 1
    /\ calls' = <<>>
    /\ last' = Did("invoke", currentStatus, NoOutcome, FALSE, FALSE)
    /\ UNCHANGED <<intervals, checkFn, currentStatus, timer, suspectCount,
                   healthyCount, listeners, history, now, nextTimerId, script,
                   mayThrow, stopped, checkCalls, registered, fullLog,
                   failRun, okRun>>

\* the result a scripted mock returns at its n-th call: results[n % length]
ScriptedOutcome(n) == script[(n % Len(script)) + 1]

\* the probe's promise settles: the rest of runCheck()
Settle(outcome) ==
    /\ inflight > 0
    /\ Scripted => outcome = ScriptedOutcome(probeCalls - inflight)
    /\ LET r == resumeRunCheck(Self, Host, outcome, now)
           failed == outcome.kind = "reject" \/ ~outcome.value
       IN /\ currentStatus' = r.o.currentStatus
          /\ suspectCount' = r.o.suspectCount
          /\ healthyCount' = r.o.healthyCount
          /\ history' = r.o.history
          /\ timer' = r.h.timer
          /\ timers' = r.h.timers
          /\ nextTimerId' = r.h.nextTimerId
          /\ calls' = r.calls
          /\ fullLog' = fullLog \o r.pushed
          /\ last' = Did("settle", currentStatus, outcome, r.scheduled, r.escaped)
          /\ failRun' = IF failed THEN failRun + 1 ELSE 0
          /\ okRun' = IF failed THEN 0 ELSE okRun + 1
    /\ inflight' = inflight - 1
    /\ UNCHANGED <<intervals, checkFn, listeners, now, script, mayThrow,
                   stopped, probeCalls, checkCalls, registered>>

Next ==
    \/ \E status \in CheckStatus, throws \in BOOLEAN :
          (throws => mayThrow) /\ On(status, throws)
    \/ \E fn \in Probes : Check(fn)
    \/ Stop
    \/ Tick
    \/ \E x \in timers : TimerFire(x)
    \/ \E outcome \in Outcomes : Settle(outcome)

Spec == Init /\ [][Next]_vars

\* ------------------------------------------- long runs of a mock probe

\* createMockCheck(results): the results a mock probe cycles through
Resolve(b) == [kind |-> "resolve", value |-> b, raised |-> NoError]
Reject(e) == [kind |-> "reject", value |-> FALSE, raised |-> e]

Scripts ==
    { <<Resolve(TRUE)>>,
      <<Resolve(FALSE)>>,
      <<Resolve(FALSE), Resolve(TRUE), Resolve(TRUE)>>,
      <<Resolve(TRUE), Resolve(FALSE)>>,
      <<Reject(TestError), Resolve(TRUE)>> }

InitLong ==
    /\ InitCommon
    /\ script \in Scripts
    /\ mayThrow = FALSE

NextLong ==
    \/ \E fn \in Probes : Check(fn)
    \/ Tick
    \/ \E x \in timers : TimerFire(x)
    \/ \E outcome \in Outcomes : Settle(outcome)

SpecLong == InitLong /\ [][NextLong]_vars

\* ------------------------------------- the loop under the host's scheduling

\* the monitor without listeners; the host lets time pass and fires a timer
\* that is due
NextLive ==
    \/ \E fn \in Probes : Check(fn)
    \/ Stop
    \/ Tick
    \/ \E x \in timers : TimerFire(x)
    \/ \E outcome \in Outcomes : Settle(outcome)

SpecLive ==
    /\ Init
    /\ [][NextLive]_vars
    /\ WF_vars(Tick)
    /\ WF_vars(\E x \in timers : TimerFire(x))

\* the monitor with listeners that may throw, constructed with the required
\* intervals only (the default maxSuspectCount and minHealthyCount)
InitThrow ==
    /\ InitCommon
    /\ intervals = Construct(RequiredInput)
    /\ script = <<>>
    /\ mayThrow = TRUE

SpecThrow == InitThrow /\ [][Next]_vars

\* ================================================================ claims

Failed(outcome) == outcome.kind = "reject" \/ ~outcome.value
Settled == last.op = "settle"
CallsFor(event) == SelectSeq(calls, LAMBDA c : c.event = event)
RegisteredIds(event) == [i \in 1..Len(listeners[event]) |-> listeners[event][i].id]
CalledIds(event) == [i \in 1..Len(CallsFor(event)) |-> CallsFor(event)[i].listener]

\* C1: after stop() returns, the probe is not invoked again until check() is
\* called again, also when stop() is called while a probe is in flight.
C1_NoProbeAfterStop == [][stopped => probeCalls' = probeCalls]_vars

\* C2: while the status is healthy or suspect, a failed probe makes the status
\* unhealthy exactly when it is the maxSuspectCount-th failure in a row since
\* the last success (or the start); with fewer failures in a row the status is
\* suspect, and no suspect listener is called again while it stays suspect.
C2_UnhealthyAtMaxSuspectCount ==
    (Settled /\ Failed(last.outcome) /\ last.prev \in {"healthy", "suspect"}) =>
        /\ currentStatus = "unhealthy" <=> failRun = intervals.maxSuspectCount
        /\ failRun < intervals.maxSuspectCount =>
              /\ currentStatus = "suspect"
              /\ last.prev = "suspect" => CallsFor("suspect") = <<>>

C2_Witness ==
    /\ Settled /\ Failed(last.outcome) /\ last.prev = "suspect"
    /\ intervals.maxSuspectCount = 3
    /\ failRun = 3
    /\ currentStatus = "unhealthy"

\* C3: while the status is suspect or unhealthy, a successful probe makes the
\* status healthy exactly when it is the minHealthyCount-th success in a row
\* since the last failure; after fewer successes the status is unchanged.
C3_HealthyAtMinHealthyCount ==
    (Settled /\ ~Failed(last.outcome) /\ last.prev \in {"suspect", "unhealthy"}) =>
        /\ currentStatus = "healthy" <=> okRun = intervals.minHealthyCount
        /\ okRun < intervals.minHealthyCount => currentStatus = last.prev

C3_Witness ==
    /\ Settled /\ ~Failed(last.outcome) /\ last.prev = "unhealthy"
    /\ intervals.minHealthyCount = 2
    /\ okRun = 2
    /\ currentStatus = "healthy"

\* C4: with maxSuspectCount > 1, one failed probe of a healthy monitor makes
\* the status suspect, and every listener registered under "suspect" is called
\* exactly once for that probe, in registration order, with a snapshot whose
\* status is "suspect".
C4_FirstFailureNotifiesSuspect ==
    (Settled /\ Failed(last.outcome) /\ last.prev = "healthy"
        /\ intervals.maxSuspectCount > 1) =>
        /\ currentStatus = "suspect"
        /\ CalledIds("suspect") = RegisteredIds("suspect")
        /\ \A i \in 1..Len(CallsFor("suspect")) :
              CallsFor("suspect")[i].arg.status = "suspect"

C4_Witness ==
    /\ Settled /\ Failed(last.outcome) /\ last.prev = "healthy"
    /\ intervals.maxSuspectCount > 1
    /\ Len(listeners["suspect"]) = 2
    /\ Len(CallsFor("suspect")) = 2

\* C5: with maxSuspectCount = 1 a failed probe of a healthy monitor makes the
\* status unhealthy at once; the status is never suspect and no listener
\* registered under "suspect" is ever called.
C5_NeverSuspectWithMaxOne ==
    intervals.maxSuspectCount = 1 =>
        /\ currentStatus # "suspect"
        /\ CallsFor("suspect") = <<>>
        /\ (Settled /\ Failed(last.outcome) /\ last.prev = "healthy") =>
              currentStatus = "unhealthy"

C5_Witness ==
    /\ intervals.maxSuspectCount = 1
    /\ Settled /\ Failed(last.outcome) /\ last.prev = "healthy"
    /\ currentStatus = "unhealthy"
    /\ Len(listeners["suspect"]) > 0

C7_ErrorListenersGetRaisedValue ==
    (Settled /\ last.outcome.kind = "reject") =>
        /\ CalledIds("error") = RegisteredIds("error")
        /\ \A i \in 1..Len(CallsFor("error")) :
              CallsFor("error")[i].arg = last.outcome.raised
        /\ ~last.escaped

\* C7 amended: every registered "error" listener is called exactly once for
\* that probe and receives e itself when e is an Error instance, and a new
\* Error("Unknown error") when it is not; nothing reaches the caller.
C7_ErrorListenersGetErrorInstance ==
    (Settled /\ last.outcome.kind = "reject") =>
        /\ CalledIds("error") = RegisteredIds("error")
        /\ \A i \in 1..Len(CallsFor("error")) :
              CallsFor("error")[i].arg =
                  IF last.outcome.raised.isError
                  THEN last.outcome.raised
                  ELSE [isError |-> TRUE, message |-> "Unknown error"]
        /\ ~last.escaped

C7_Witness ==
    /\ Settled /\ last.outcome.kind = "reject"
    /\ ~last.outcome.raised.isError
    /\ Len(listeners["error"]) = 2
    /\ Len(CallsFor("error")) = 2

\* C8: the history never holds more than 100 entries; once full, a push
\* removes the oldest entry and keeps the order of the rest, so the history
\* is always the most recent entries pushed, oldest first.
C8_HistoryKeepsLatestHundred ==
    /\ Len(history) <= 100
    /\ Len(history) = IF Len(fullLog) < 100 THEN Len(fullLog) ELSE 100
    /\ history = SubSeq(fullLog, Len(fullLog) - Len(history) + 1, Len(fullLog))
    /\ \A i \in 1..(Len(history) - 1) :
          history[i].timestamp <= history[i + 1].timestamp

C8_Witness ==
    /\ Len(fullLog) = 102
    /\ Len(history) = 100
    /\ history[1] = fullLog[3]
    /\ history[1] # fullLog[1]

\* C9 (for a window that is not empty, the case the claim singles out):
\* getMetrics().statusCounts has a count for healthy, suspect and unhealthy,
\* each the number of entries of the 60-minute window with that status, 0 when
\* there is none.
C9_StatusCountsHasEveryStatus ==
    LET recent == getRecentHistory(history, 60, now)
        counts == getMetrics(history, now).statusCounts
    IN Len(recent) > 0 =>
          \A s \in Statuses :
              /\ s \in DOMAIN counts
              /\ counts[s] = Cardinality({i \in 1..Len(recent) : recent[i].status = s})

\* C10: whenever check() or a probe completion schedules the next probe, the
\* timer's delay is the configured interval of the status the monitor then
\* has (after the update just applied), and the timer is due that long after
\* the present instant.
C10_DelayFollowsStatus ==
    last.scheduled =>
        \E x \in timers :
            /\ x.id = timer
            /\ x.due = now + x.delay
            /\ currentStatus = "healthy" => x.delay = intervals.healthy
            /\ currentStatus = "suspect" => x.delay = intervals.suspect
            /\ currentStatus = "unhealthy" => x.delay = intervals.unhealthy

C10_Witness ==
    /\ Settled /\ last.scheduled
    /\ last.prev = "suspect"
    /\ currentStatus = "unhealthy"
    /\ \E x \in timers : x.id = timer /\ x.delay = 70 * 60000

\* C11: at most one probe invocation is in flight at any time, under every
\* interleaving of timer firings, probe completions, check() and stop(),
\* also when check() is called while a probe is in flight.
C11_OneProbeInFlight == inflight <= 1

FailedSettle == Settled /\ Failed(last.outcome)
TimerPending == \E x \in timers : x.id = timer

\* C12: every probe failure (the probe returns false, rejects or throws)
\* leaves a timer pending for the next probe, and from there the probe is
\* invoked again unless stop() is called first (or the run has used up its
\* probe invocations): no probe failure ends the scheduling loop.
C12_FailureKeepsLoopAlive ==
    /\ [](FailedSettle => TimerPending)
    /\ FailedSettle ~> (last.op \in {"invoke", "stop"} \/ probeCalls >= ProbeBound)

C12_Witness ==
    /\ FailedSettle
    /\ last.outcome.kind = "reject"
    /\ ~stopped
    /\ TimerPending
    /\ probeCalls < ProbeBound

\* C13: while the status is unhealthy, a failed probe leaves the status
\* unhealthy and suspectCount unchanged and sets healthyCount to 0; the status
\* leaves unhealthy only by a successful probe, and only to healthy.
C13_UnhealthyLeftOnlyBySuccess ==
    [][currentStatus = "unhealthy" =>
          /\ (last'.op = "settle" /\ Failed(last'.outcome)) =>
                /\ currentStatus' = "unhealthy"
                /\ suspectCount' = suspectCount
                /\ healthyCount' = 0
          /\ currentStatus' # "unhealthy" =>
                /\ last'.op = "settle"
                /\ ~Failed(last'.outcome)
                /\ currentStatus' = "healthy"]_vars

C13_Witness ==
    /\ FailedSettle
    /\ last.prev = "unhealthy"
    /\ currentStatus = "unhealthy"
    /\ suspectCount = intervals.maxSuspectCount
    /\ healthyCount = 0
    /\ Len(history) = 3

StatusCalls == SelectSeq(calls, LAMBDA c : c.event # "error")

\* C14: the update for a completed probe calls status listeners exactly when
\* the status after it differs from the status before it, and then exactly
\* the listeners registered under the new status, each once, in registration
\* order; an update that leaves the status unchanged calls none.
C14_NotifyIffStatusChanged ==
    Settled =>
        IF last.prev # currentStatus
        THEN /\ [i \in 1..Len(StatusCalls) |-> StatusCalls[i].listener]
                    = RegisteredIds(currentStatus)
             /\ \A i \in 1..Len(StatusCalls) : StatusCalls[i].event = currentStatus
        ELSE StatusCalls = <<>>

C14_Witness ==
    /\ Settled
    /\ last.prev = "suspect"
    /\ currentStatus = "healthy"
    /\ Len(listeners["healthy"]) = 2
    /\ CalledIds("healthy") = <<1, 2>>

\* the run of entries at the end of the history that share the status of the
\* latest entry, counted directly; 0 on an empty history
TrailingRun(h) ==
    IF h = <<>> THEN 0
    ELSE CHOOSE k \in 1..Len(h) :
            /\ \A i \in (Len(h) - k + 1)..Len(h) : h[i].status = h[Len(h)].status
            /\ k = Len(h) \/ h[Len(h) - k].status # h[Len(h)].status

\* C15: getMetrics().currentStreak is the number of consecutive most recent
\* entries of the whole history that share the latest entry's status, 0 on an
\* empty history, also when no entry lies inside the 60-minute window.
C15_CurrentStreakOverFullHistory ==
    getMetrics(history, now).currentStreak = TrailingRun(history)

\* C16: the current status is always healthy, suspect or unhealthy, never
\* "error", and no history entry has the status "error", also after a probe
\* rejected.
C16_ErrorIsNeverAStatus ==
    /\ currentStatus \in Statuses
    /\ \A i \in 1..Len(history) : history[i].status \in Statuses
    /\ \A i \in 1..Len(fullLog) : fullLog[i].status \in Statuses

C16_Witness ==
    /\ FailedSettle
    /\ last.outcome.kind = "reject"
    /\ Len(history) = 2
    /\ currentStatus = "unhealthy"

\* C17: at most one timer of the monitor is pending in every state, whatever
\* the interleaving of check(), stop(), timer firings and probe completions.
C17_AtMostOnePendingTimer ==
    /\ Cardinality(timers) <= 1
    /\ \A x \in timers : x.id = timer

C17_Witness ==
    /\ last.op = "check"
    /\ checkCalls = 2
    /\ probeCalls = 0
    /\ timers # {}
    /\ timer = 2

\* C20: between updates 0 <= suspectCount <= maxSuspectCount, a healthy
\* monitor has suspectCount = 0, a suspect monitor has suspectCount below
\* maxSuspectCount, and healthyCount and suspectCount are never both above 0.
C20_HysteresisCounters ==
    /\ 0 <= suspectCount
    /\ suspectCount <= intervals.maxSuspectCount
    /\ currentStatus = "healthy" => suspectCount = 0
    /\ currentStatus = "suspect" => suspectCount < intervals.maxSuspectCount
    /\ ~(healthyCount > 0 /\ suspectCount > 0)

C20_Witness ==
    /\ Settled
    /\ ~Failed(last.outcome)
    /\ last.prev = "suspect"
    /\ currentStatus = "suspect"
    /\ healthyCount = 1
    /\ suspectCount = 0
    /\ Len(history) = 3

ErrorCalls == CallsFor("error")

\* C18: a probe rejection is handled as (1) the failure update of a probe
\* that returned false (same counters, status, history and status-listener
\* calls), (2) the same scheduling of the next probe, (3) the calls to the
\* "error" listeners: the status listeners' calls come before the error
\* listeners' calls, and each error listener finds the updated status and a
\* pending timer when it is called.
C18_RejectionUpdatesSchedulesThenReports ==
    [][(last'.op = "settle" /\ last'.outcome.kind = "reject") =>
          LET asFalse == resumeRunCheck(Self, Host, Resolve(FALSE), now)
          IN /\ Self' = asFalse.o
             /\ Host' = asFalse.h
             /\ StatusCalls' = asFalse.calls
             /\ calls' = StatusCalls' \o ErrorCalls'
             /\ [i \in 1..Len(ErrorCalls') |-> ErrorCalls'[i].listener]
                    = RegisteredIds("error")'
             /\ \A i \in 1..Len(ErrorCalls') :
                    LET seen == ErrorCalls'[i].seen
                    IN /\ seen.currentStatus = currentStatus'
                       /\ seen.timer = timer'
                       /\ \E x \in seen.timers : x.id = seen.timer]_vars

C18_Witness ==
    /\ Settled
    /\ last.outcome.kind = "reject"
    /\ last.prev # currentStatus
    /\ StatusCalls # <<>>
    /\ ErrorCalls # <<>>
    /\ TimerPending

\* C19: every completed probe invocation (true, false or rejection) applies
\* the state update exactly once and appends exactly one history entry, whose
\* status is the status after the update, whatever the listeners do, a
\* throwing status listener included.
C19_OneUpdatePerCompletedProbe ==
    [][last'.op = "settle" =>
          /\ Self' = updateStatus(Self, ~Failed(last'.outcome), now).o
          /\ Len(fullLog') = Len(fullLog) + 1
          /\ fullLog'[Len(fullLog')].status = currentStatus']_vars
====
